---- MODULE Spec2Model ----
(***************************************************************************)
(* Model of check_approvers.py: one run of main(), which validates the     *)
(* environment, builds the GitHub handles, fetches the committers and the  *)
(* approvers of a pull request and fails when the two sets intersect.      *)
(*                                                                         *)
(* Strings the code inspects or builds (environment values, logins, log    *)
(* messages) are sequences of one-character strings; fixed texts such as   *)
(* a message prefix or a variable name are a single element.               *)
(***************************************************************************)
EXTENDS Integers, Sequences, FiniteSets, TLC

VARIABLES env, pc, args, calls, log, exitCode, commits, reviews, committers, approvers

vars == <<env, pc, args, calls, log, exitCode, commits, reviews, committers, approvers>>

(* ---------------------------- bounds ---------------------------------- *)
MaxPrLen == 2
MaxCommits == 2
MaxReviews == 2

(* --------------------------- constants -------------------------------- *)
APPROVED_STATE == "APPROVED"

REQUIRED_ENV_VARS == <<"GITHUB_REPOSITORY", "PR_NUMBER", "GITHUB_TOKEN">>

EnvNames == {REQUIRED_ENV_VARS[i] : i \in DOMAIN REQUIRED_ENV_VARS}

NoExit == -1

(* ------------------------- input domains ------------------------------ *)
RECURSIVE SeqsUpTo(_, _)
SeqsUpTo(S, n) ==
    IF n = 0 THEN {<<>>}
    ELSE LET shorter == SeqsUpTo(S, n - 1)
         IN  shorter \cup {Append(s, x) : s \in {t \in shorter : Len(t) = n - 1}, x \in S}

PrChars == {"1", "a"}

UnsetVar == [set |-> FALSE, val |-> <<>>]

SetVar(v) == [set |-> TRUE, val |-> v]

\* Unset, every short string over PrChars, and one padded number.
PrValues ==
    {UnsetVar, SetVar(<<" ", "1">>)} \cup {SetVar(v) : v \in SeqsUpTo(PrChars, MaxPrLen)}

RepoValues == {UnsetVar, SetVar(<<>>), SetVar(<<"o", "/", "r">>)}

TokenValues == {UnsetVar, SetVar(<<>>), SetVar(<<"t">>)}

Logins == {<<"a">>, <<"b">>, <<"a", "b">>}

NullUser == [present |-> FALSE, login |-> <<>>]

User(l) == [present |-> TRUE, login |-> l]

Users == {NullUser} \cup {User(l) : l \in Logins \cup {<<>>}}

ReviewStates == {"APPROVED", "approved", "COMMENTED", "CHANGES_REQUESTED"}

Commits == [committer : Users]

Reviews == [state : ReviewStates, user : Users]

ExcClasses == {"ValueError", "Exception"}

RemoteError(cls) == [cls |-> cls, msg |-> <<"remote failure">>]

(* -------------------------- string helpers ---------------------------- *)
Sep == <<",", " ">>

RECURSIVE Join(_)
Join(parts) ==
    IF Len(parts) = 0 THEN <<>>
    ELSE IF Len(parts) = 1 THEN parts[1]
    ELSE parts[1] \o Sep \o Join(Tail(parts))

Orderings(S) ==
    {s \in [1..Cardinality(S) -> S] : \A x \in S : \E i \in DOMAIN s : s[i] = x}

Whitespace == {" "}

Digits == {"0", "1", "2", "3", "4", "5", "6", "7", "8", "9"}

DigitVal ==
    "0" :> 0 @@ "1" :> 1 @@ "2" :> 2 @@ "3" :> 3 @@ "4" :> 4 @@
    "5" :> 5 @@ "6" :> 6 @@ "7" :> 7 @@ "8" :> 8 @@ "9" :> 9

RECURSIVE LStrip(_)
LStrip(s) == IF s # <<>> /\ s[1] \in Whitespace THEN LStrip(Tail(s)) ELSE s

RECURSIVE RStrip(_)
RStrip(s) ==
    IF s # <<>> /\ s[Len(s)] \in Whitespace THEN RStrip(SubSeq(s, 1, Len(s) - 1)) ELSE s

Strip(s) == RStrip(LStrip(s))

DigitString(d) ==
    /\ d # <<>>
    /\ d[1] \in Digits
    /\ d[Len(d)] \in Digits
    /\ \A i \in DOMAIN d : d[i] \in Digits \cup {"_"}
    /\ \A i \in 1..(Len(d) - 1) : ~(d[i] = "_" /\ d[i + 1] = "_")

RECURSIVE DigitsValue(_, _)
DigitsValue(d, acc) ==
    IF d = <<>> THEN acc
    ELSE IF d[1] = "_" THEN DigitsValue(Tail(d), acc)
    ELSE DigitsValue(Tail(d), 10 * acc + DigitVal[d[1]])

ParseIntLenient(s) == [ok |-> TRUE, val |-> 0]

\* int(str): surrounding whitespace, an optional sign, digits with single
\* underscores between them; anything else raises ValueError.
ParseInt(s) ==
    LET t == Strip(s)
        signed == t # <<>> /\ t[1] \in {"+", "-"}
        d == IF signed THEN Tail(t) ELSE t
    IN  IF DigitString(d)
        THEN [ok |-> TRUE,
              val |-> IF signed /\ t[1] = "-" THEN 0 - DigitsValue(d, 0) ELSE DigitsValue(d, 0)]
        ELSE [ok |-> FALSE, val |-> 0]

(* ------------------------------ logging -------------------------------- *)
ErrorLine(msg) == [level |-> "ERROR", msg |-> msg]

InfoLine(msg) == [level |-> "INFO", msg |-> msg]

MissingPrefix == "Missing required environment variables: "
InvalidPrPrefix == "Invalid PR_NUMBER: "
InvalidPrSuffix == ". Must be an integer."
InitFailedPrefix == "Failed to initialize GitHub client: "
ViolationPrefix == "Security violation: The following users both committed code and approved the PR: "
UnexpectedPrefix == "Unexpected error: "
PassedMessage == "Approval validation passed: No committers found among approvers"

(* ------------------------------- main ---------------------------------- *)
MainExceptExitZero(e, before) ==
    /\ log' = log \o before \o
              <<ErrorLine(IF e.cls = "ValueError" THEN e.msg ELSE <<UnexpectedPrefix>> \o e.msg)>>
    /\ exitCode' = 0
    /\ pc' = "done"

\* The except clauses of main(): ValueError is logged as is, any other
\* Exception with a prefix; both exit 1.  `before' holds the lines logged
\* by the raising code before the exception reached main().
MainExcept(e, before) ==
    /\ log' = log \o before \o
              <<ErrorLine(IF e.cls = "ValueError" THEN e.msg ELSE <<UnexpectedPrefix>> \o e.msg)>>
    /\ exitCode' = 1
    /\ pc' = "done"

Getenv(var) == env[var]

FalsyUnsetOnly(v) == ~v.set

Falsy(v) == ~v.set \/ v.val = <<>>

RECURSIVE SelectSeq2(_, _)
SelectSeq2(s, keep) ==
    IF s = <<>> THEN <<>>
    ELSE IF s[1] \in keep THEN <<s[1]>> \o SelectSeq2(Tail(s), keep)
    ELSE SelectSeq2(Tail(s), keep)

MissingVars == SelectSeq2(REQUIRED_ENV_VARS, {var \in EnvNames : Falsy(Getenv(var))})

ValidateEnvironment ==
    /\ pc = "start"
    /\ IF MissingVars # <<>>
       THEN /\ MainExcept([cls |-> "ValueError",
                           msg |-> <<MissingPrefix>> \o
                                   Join([i \in DOMAIN MissingVars |-> <<MissingVars[i]>>])],
                          <<>>)
            /\ UNCHANGED args
       ELSE LET pr_number == Getenv("PR_NUMBER").val
                parsed == ParseInt(pr_number)
            IN  IF ~parsed.ok
                THEN /\ MainExcept([cls |-> "ValueError",
                                    msg |-> <<InvalidPrPrefix>> \o pr_number \o <<InvalidPrSuffix>>],
                                   <<>>)
                     /\ UNCHANGED args
                ELSE /\ args' = [repo_name |-> Getenv("GITHUB_REPOSITORY").val,
                                 pr_number |-> parsed.val,
                                 token |-> Getenv("GITHUB_TOKEN").val]
                     /\ pc' = "validated"
                     /\ UNCHANGED <<log, exitCode>>
    /\ UNCHANGED <<env, calls, commits, reviews, committers, approvers>>

Call(op, ok) == [op |-> op, ok |-> ok]

InitStepSwallow(from, op, to) ==
    /\ pc = from
    /\ \E ok \in BOOLEAN : calls' = Append(calls, Call(op, ok))
    /\ pc' = to
    /\ UNCHANGED <<env, args, log, exitCode, commits, reviews, committers, approvers>>

\* One statement of the try block of PullRequestChecker.__init__: the call
\* either returns, or raises; the except clause logs and re-raises to main().
InitStep(from, op, to) ==
    /\ pc = from
    /\ \E ok \in BOOLEAN :
         /\ calls' = Append(calls, Call(op, ok))
         /\ IF ok
            THEN /\ pc' = to
                 /\ UNCHANGED <<log, exitCode>>
            ELSE \E cls \in ExcClasses :
                   MainExcept(RemoteError(cls),
                              <<ErrorLine(<<InitFailedPrefix>> \o RemoteError(cls).msg)>>)
    /\ UNCHANGED <<env, args, commits, reviews, committers, approvers>>

NewGithub == InitStep("validated", "Github", "client")

GetRepo == InitStep("client", "get_repo", "repo")

GetPull == InitStep("repo", "get_pull", "checker")

GetCommittersNoNullCheck(cs) == {cs[i].committer.login : i \in DOMAIN cs}

GetCommitters(cs) ==
    {cs[i].committer.login :
        i \in {j \in DOMAIN cs : cs[j].committer.present /\ cs[j].committer.login # <<>>}}

FetchCommitters ==
    /\ pc = "checker"
    /\ \E ok \in BOOLEAN :
         /\ calls' = Append(calls, Call("get_commits", ok))
         /\ IF ok
            THEN \E cs \in SeqsUpTo(Commits, MaxCommits) :
                   /\ commits' = cs
                   /\ committers' = GetCommitters(cs)
                   /\ pc' = "commits"
                   /\ UNCHANGED <<log, exitCode>>
            ELSE /\ \E cls \in ExcClasses : MainExcept(RemoteError(cls), <<>>)
                 /\ UNCHANGED <<commits, committers>>
    /\ UNCHANGED <<env, args, reviews, approvers>>

Upper(state) == IF state = "approved" THEN "APPROVED" ELSE state

GetApproversAnyCase(rs) ==
    {rs[i].user.login :
        i \in {j \in DOMAIN rs : Upper(rs[j].state) = APPROVED_STATE /\ rs[j].user.present}}

GetApproversNoUserCheck(rs) ==
    {rs[i].user.login : i \in {j \in DOMAIN rs : rs[j].state = APPROVED_STATE}}

GetApprovers(rs) ==
    {rs[i].user.login :
        i \in {j \in DOMAIN rs : rs[j].state = APPROVED_STATE /\ rs[j].user.present}}

FetchApprovers ==
    /\ pc = "commits"
    /\ \E ok \in BOOLEAN :
         /\ calls' = Append(calls, Call("get_reviews", ok))
         /\ IF ok
            THEN \E rs \in SeqsUpTo(Reviews, MaxReviews) :
                   /\ reviews' = rs
                   /\ approvers' = GetApprovers(rs)
                   /\ pc' = "reviews"
                   /\ UNCHANGED <<log, exitCode>>
            ELSE /\ \E cls \in ExcClasses : MainExcept(RemoteError(cls), <<>>)
                 /\ UNCHANGED <<reviews, approvers>>
    /\ commits' = <<>>
    /\ UNCHANGED <<env, args, committers>>

IntersectionAsUnion(cset, aset) == cset \cup aset

IntersectionAsCommitters(cset, aset) == cset

Intersection(cset, aset) == cset \cap aset

\* The rest of check_approvers() and the return to main().  The order in
\* which join() walks the set is not defined.  The list get_reviews() gave
\* was consumed by the comprehension and is gone, as the commit list is
\* once get_committers() has returned.
Compare ==
    /\ pc = "reviews"
    /\ LET intersection == Intersection(committers, approvers)
       IN  IF intersection # {}
           THEN \E order \in Orderings(intersection) :
                  LET error_msg == <<ViolationPrefix>> \o Join(order)
                  IN  MainExcept([cls |-> "ValueError", msg |-> error_msg],
                                 <<ErrorLine(error_msg)>>)
           ELSE /\ log' = Append(log, InfoLine(<<PassedMessage>>))
                /\ exitCode' = 0
                /\ pc' = "done"
    /\ reviews' = <<>>
    /\ UNCHANGED <<env, args, calls, commits, committers, approvers>>

Init ==
    /\ \E r \in RepoValues, p \in PrValues, t \in TokenValues :
         env = [var \in EnvNames |->
                  IF var = "GITHUB_REPOSITORY" THEN r ELSE IF var = "PR_NUMBER" THEN p ELSE t]
    /\ pc = "start"
    /\ args = [repo_name |-> <<>>, pr_number |-> 0, token |-> <<>>]
    /\ calls = <<>>
    /\ log = <<>>
    /\ exitCode = NoExit
    /\ commits = <<>>
    /\ reviews = <<>>
    /\ committers = {}
    /\ approvers = {}

Next ==
    \/ ValidateEnvironment
    \/ NewGithub
    \/ GetRepo
    \/ GetPull
    \/ FetchCommitters
    \/ FetchApprovers
    \/ Compare

Spec == Init /\ [][Next]_vars

(***************************************************************************)
(* Vocabulary of the properties, stated without the operators above.       *)
(***************************************************************************)
Blank(c) == c = " "

\* s reads as a decimal integer: blanks around an optional sign and a
\* non-empty run of digits (single underscores may group the digits).
IsIntegerText(s) ==
    \E i \in 1..Len(s) : \E j \in i..Len(s) :
        /\ \A k \in 1..(i - 1) : Blank(s[k])
        /\ \A k \in (j + 1)..Len(s) : Blank(s[k])
        /\ \E f \in {i, i + 1} :
             /\ f <= j
             /\ f = i + 1 => s[i] \in {"+", "-"}
             /\ s[f] \in Digits /\ s[j] \in Digits
             /\ \A k \in f..j : s[k] \in Digits \/ (s[k] = "_" /\ s[k + 1] # "_")

Absent(var) == ~env[var].set \/ Len(env[var].val) = 0

AbsentVars == {var \in EnvNames : Absent(var)}

PrUnusable == ~env["PR_NUMBER"].set \/ ~IsIntegerText(env["PR_NUMBER"].val)

EnvironmentValid == AbsentVars = {} /\ ~PrUnusable

Offenders == {l \in committers : l \in approvers}

AllCallsOk == \A i \in DOMAIN calls : calls[i].ok

CallOrder == <<"Github", "get_repo", "get_pull", "get_commits", "get_reviews">>

BothFetched == Len(calls) = Len(CallOrder) /\ AllCallsOk

ErrorLines == {i \in DOMAIN log : log[i].level = "ERROR"}

ViolationLines == {i \in ErrorLines : log[i].msg[1] = ViolationPrefix}

RECURSIVE SplitAcc(_, _, _)
SplitAcc(s, cur, acc) ==
    IF s = <<>> THEN Append(acc, cur)
    ELSE IF Len(s) >= 2 /\ s[1] = "," /\ s[2] = " "
         THEN SplitAcc(SubSeq(s, 3, Len(s)), <<>>, Append(acc, cur))
         ELSE SplitAcc(Tail(s), Append(cur, s[1]), acc)

\* The entries of a comma-separated list, as a set.
Listed(s) == LET parts == SplitAcc(s, <<>>, <<>>) IN {parts[i] : i \in DOMAIN parts}

(* C1: once both fetches have returned, check_approvers() raises (the run  *)
(* logs the violation and exits 1) exactly when some login is both a       *)
(* committer and an approver; otherwise it logs the success line as its    *)
(* last act and returns, so that the run ends with exit code 0.            *)
C1_FailsIffIntersect ==
    (pc = "done" /\ BothFetched) =>
        /\ (Offenders # {}) <=> (ViolationLines # {} /\ exitCode = 1)
        /\ (Offenders = {}) =>
             /\ log # <<>>
             /\ log[Len(log)] = InfoLine(<<PassedMessage>>)
             /\ ErrorLines = {}
             /\ exitCode = 0

C1_Witness ==
    /\ pc = "done" /\ BothFetched
    /\ Cardinality(Offenders) = 2
    /\ exitCode = 1

(* C2: a finished run has exit code 0 or 1, and it is 0 exactly when the   *)
(* environment is valid, all five remote operations succeeded and no login *)
(* is both committer and approver; an unfinished run has no exit code.     *)
C2_ExitCode ==
    /\ (pc = "done") <=> (exitCode # NoExit)
    /\ pc = "done" =>
         /\ exitCode \in {0, 1}
         /\ (exitCode = 0) <=> (EnvironmentValid /\ BothFetched /\ Offenders = {})

C2_Witness ==
    /\ pc = "done" /\ exitCode = 0
    /\ committers # {} /\ approvers # {}

(* C3: when PR_NUMBER is unset or is not the text of an integer, no remote *)
(* call is made at any point of the run, and the run ends with exit 1.     *)
C3_BadPrNoRemoteCall ==
    PrUnusable =>
        /\ calls = <<>>
        /\ pc \in {"start", "done"}
        /\ pc = "done" => exitCode = 1

C3_Witness ==
    /\ pc = "done" /\ exitCode = 1 /\ calls = <<>>
    /\ AbsentVars = {}
    /\ env["PR_NUMBER"].val = <<"a", "a">>

(* C4: the approver set is exactly the set of logins of the reviewers      *)
(* whose review state is the string "APPROVED"; other states, and other    *)
(* spellings of it, add nothing, and one APPROVED review is enough.        *)
C4_ApproversExact ==
    pc = "reviews" =>
        \A l \in Logins \cup {<<>>} \cup approvers :
            (l \in approvers) <=>
                \E i \in DOMAIN reviews :
                    /\ reviews[i].state = "APPROVED"
                    /\ reviews[i].user.present
                    /\ reviews[i].user.login = l

C4_Witness ==
    /\ pc = "reviews"
    /\ \E i, j \in DOMAIN reviews :
         /\ reviews[i].state = "APPROVED"
         /\ reviews[j].state = "CHANGES_REQUESTED"
         /\ reviews[i].user.present
         /\ reviews[i].user = reviews[j].user
         /\ reviews[i].user.login \in approvers

(* C5: the committer set is exactly the set of logins of the commits that  *)
(* have a committer with a login; a commit without one is skipped and the  *)
(* run goes on without an error.                                           *)
C5_CommittersExact ==
    pc = "commits" =>
        /\ exitCode = NoExit
        /\ ErrorLines = {}
        /\ \A l \in Logins \cup {<<>>} \cup committers :
             (l \in committers) <=>
                 /\ Len(l) > 0
                 /\ \E i \in DOMAIN commits :
                      commits[i].committer.present /\ commits[i].committer.login = l

C5_Witness ==
    /\ pc = "commits"
    /\ Len(commits) = 2
    /\ ~commits[1].committer.present
    /\ commits[2].committer.present
    /\ committers = {commits[2].committer.login}
    /\ Cardinality(committers) = 1

(* C6: the logins listed in a policy-violation message are exactly the     *)
(* logins that are both committer and approver.                            *)
C6_MessageListsOffenders ==
    \A i \in ViolationLines : Listed(Tail(log[i].msg)) = Offenders

C6_Witness ==
    /\ ViolationLines # {}
    /\ Offenders # {}
    /\ committers \ approvers # {}
    /\ approvers \ committers # {}

(* C7: a failing run logs exactly one error line and exits non-zero.       *)
RunFailed == ~EnvironmentValid \/ ~AllCallsOk \/ (BothFetched /\ Offenders # {})

C7_SingleErrorLine ==
    (pc = "done" /\ RunFailed) =>
        /\ exitCode = 1
        /\ Cardinality(ErrorLines) = 1

(* C8: the remote operations are invoked in the fixed order, each at most  *)
(* once, only after the environment was validated; a failed operation is   *)
(* the last one of the run, which then ends with exit 1; the outcome of    *)
(* the comparison comes only after both fetches.                           *)
C8_OrderNoRetry ==
    /\ Len(calls) <= Len(CallOrder)
    /\ \A i \in DOMAIN calls : calls[i].op = CallOrder[i]
    /\ \A i \in DOMAIN calls : ~calls[i].ok => i = Len(calls)
    /\ calls # <<>> => EnvironmentValid
    /\ ~AllCallsOk => (pc = "done" /\ exitCode = 1)
    /\ (pc \in {"commits", "reviews"} \/ committers # {}) => Len(calls) >= 4
    /\ (pc = "reviews" \/ approvers # {}) => Len(calls) = 5
    /\ (exitCode = 0 \/ ViolationLines # {}) => BothFetched

C8_Witness ==
    /\ pc = "done" /\ exitCode = 1
    /\ Len(calls) = 4
    /\ ~calls[4].ok
    /\ approvers = {}

(* C9: an APPROVED review without a user is skipped: every approver comes  *)
(* from an APPROVED review that has a user, and no error is raised.        *)
C9_NullUserSkipped ==
    (pc = "reviews" /\ \E i \in DOMAIN reviews :
                          reviews[i].state = "APPROVED" /\ ~reviews[i].user.present) =>
        /\ exitCode = NoExit
        /\ ErrorLines = {}
        /\ \A l \in approvers :
             \E j \in DOMAIN reviews : reviews[j].user = User(l)

C9_Witness ==
    /\ pc = "reviews"
    /\ Len(reviews) = 2
    /\ \A i \in DOMAIN reviews : reviews[i].state = "APPROVED" /\ ~reviews[i].user.present
    /\ approvers = {}
    /\ committers # {}

(* C10: when a required variable is unset or empty, no remote call is made *)
(* and the run ends with exit 1 and one error line, which names exactly    *)
(* the unset or empty variables and is not the integer-parse message.      *)
C10_EmptyIsMissing ==
    AbsentVars # {} =>
        /\ calls = <<>>
        /\ pc \in {"start", "done"}
        /\ pc = "done" =>
             /\ exitCode = 1
             /\ Len(log) = 1
             /\ log[1].level = "ERROR"
             /\ log[1].msg[1] = MissingPrefix
             /\ Listed(Tail(log[1].msg)) = {<<var>> : var \in AbsentVars}

C10_Witness ==
    /\ pc = "done" /\ exitCode = 1
    /\ env["GITHUB_REPOSITORY"] = SetVar(<<>>)
    /\ env["PR_NUMBER"] = SetVar(<<>>)
    /\ ~env["GITHUB_TOKEN"].set
    /\ Len(log) = 1
====
